---- MODULE Spec2Model ----
(***************************************************************************)
(* Defense news pipeline: the polling orchestrator (pipeline.main), the    *)
(* per-topic delivery state (notifiers), the fetch ledger (scraper) and    *)
(* the keyword matcher (keyword_matcher), as one state machine.            *)
(***************************************************************************)
EXTENDS Integers, Sequences, FiniteSets, TLC

VARIABLES
    pc,             \* position of the orchestrator process in pipeline.main
    ctx,            \* which save_notification_state call is running: "iter" | "inner" | "outer"
    iteration,      \* pipeline.main's iteration counter
    state,          \* the in-memory notification state dict
    stateFile,      \* data/.notification_state.json on disk
    processed,      \* data/.processed_guids.json on disk (scraper's seen ledger)
    topics,         \* this iteration's list of active topics (topic ids, row order)
    new_items,      \* scraper.main()'s result
    analyzed_items, \* analyzer.analyze_all_items(new_items)
    ti,             \* index of the topic being processed
    matching_items, \* filter_items_by_topic(analyzed_items, topic)
    ii,             \* index of the matching item being processed
    exc,            \* step of the iteration whose exception is being handled
    endCause,       \* why the process ended ("none" while it runs)
    succ,           \* history: (topic, sink, guid) for which a sink adapter returned success
    succCount,      \* history: successes per (topic, sink, guid) in this process run
    dupCall,        \* history: a sink adapter was called for a triple already marked
    attempted,      \* history: triples whose sink adapter was called in this iteration
    failedNow,      \* history: triples whose last call in this iteration failed
    pending,        \* history: triples that failed in an earlier iteration, not called since
    wsFailed,       \* history: topics whose worksheet could not be obtained this iteration
    intAt,          \* history: <<pc, ctx>> at which the last interrupt signal arrived
    call,           \* the last application of a library function: its inputs and result
    now             \* the wall clock read by datetime.now()

vars == <<pc, ctx, iteration, state, stateFile, processed, topics, new_items,
          analyzed_items, ti, matching_items, ii, exc, endCause, succ, succCount,
          dupCall, attempted, failedNow, pending, wsFailed, intAt, call, now>>

(***************************************************************************)
(* Bounds of the model.                                                    *)
(***************************************************************************)
MaxIterations == 3
MaxFeed == 2
MaxKeywords == 2
MaxBatch == 2

\* The store on its own: how many store calls one behaviour makes; the clock
\* advances by one with every call.
MaxClock == 5

\* The Topics worksheet on its own: how many data rows it has.
MaxRows == 2

(***************************************************************************)
(* Text. A string is a sequence of character codes: 0 is the space, 1..3   *)
(* are the lowercase letters a..c, 11..13 the uppercase letters A..C.      *)
(***************************************************************************)
Space == <<0>>

LowerChar(c) == IF c > 10 THEN c - 10 ELSE c

Lower(s) == [i \in 1..Len(s) |-> LowerChar(s[i])]

RECURSIVE LStrip(_)
LStrip(s) == IF s # <<>> /\ Head(s) = 0 THEN LStrip(Tail(s)) ELSE s

RECURSIVE RStrip(_)
RStrip(s) ==
    IF s # <<>> /\ s[Len(s)] = 0 THEN RStrip(SubSeq(s, 1, Len(s) - 1)) ELSE s

Strip(s) == LStrip(RStrip(s))

\* Python's `kw in text` on strings: kw is a contiguous substring of text.
Contains(kw, text) ==
    \E i \in 0..(Len(text) - Len(kw)) : SubSeq(text, i + 1, i + Len(kw)) = kw

Range(s) == {s[i] : i \in 1..Len(s)}

RECURSIVE SelectItems(_, _)
SelectItems(s, keep) ==
    IF s = <<>> THEN <<>>
    ELSE IF s[1] \in keep THEN <<s[1]>> \o SelectItems(Tail(s), keep)
    ELSE SelectItems(Tail(s), keep)

(***************************************************************************)
(* The feed: the raw items the two RSS feeds can hold.                     *)
(***************************************************************************)
Guids == {"g1", "g2"}

Catalog ==
    { [guid |-> "g1", title |-> <<11, 2>>, description |-> <<>>],
      [guid |-> "g2", title |-> <<2>>,     description |-> <<1>>] }

Feeds == UNION {[1..n -> Catalog] : n \in 0..MaxFeed}

(***************************************************************************)
(* What the analysis collaborator can return for an item.                  *)
(***************************************************************************)
FailedAnalysis == [newsworthy |-> FALSE, score |-> 0, summary |-> <<3>>]

AnalysisResults ==
    { [newsworthy |-> TRUE,  score |-> 8, summary |-> <<1>>],
      [newsworthy |-> FALSE, score |-> 3, summary |-> <<>>],
      FailedAnalysis }

(***************************************************************************)
(* The Topics worksheet, as _row_to_topic converts its rows.               *)
(***************************************************************************)
TopicIds == {"t1", "t2"}

TopicOrder == <<"t1", "t2">>

Topic(t) ==
    IF t = "t1"
    THEN [id |-> "t1", keywords |-> << <<2>> >>, slack_webhook |-> TRUE,
          score_threshold |-> 5]
    ELSE [id |-> "t2", keywords |-> << <<1, 2>> >>, slack_webhook |-> FALSE,
          score_threshold |-> 3]

Sinks == {"log", "slack"}

Triples == TopicIds \X Sinks \X Guids

(***************************************************************************)
(* keyword_matcher.py                                                      *)
(***************************************************************************)
\* Python's None as the value of a text field, and as the value of `analysis`.
Null == <<-1>>

NullAnalysis == [isNone |-> TRUE]

\* Truthiness of a text value: None and "" are false.
Truthy(v) == v # <<>> /\ v # Null

SearchableText(item) ==
    LET t == IF "title" \in DOMAIN item /\ Truthy(item.title)
             THEN item.title \o Space ELSE <<>>
        d == IF "description" \in DOMAIN item /\ Truthy(item.description)
             THEN item.description \o Space ELSE <<>>
        a == IF "analysis" \in DOMAIN item /\ "summary" \in DOMAIN item.analysis
             THEN item.analysis.summary \o Space ELSE <<>>
    IN  Strip(Lower(t \o d \o a))

\* Mutant: the keyword is not lower-cased before the comparison.
matches_topic_case_sensitive(item, keywords) ==
    IF keywords = <<>> THEN FALSE
    ELSE \E k \in 1..Len(keywords) : Contains(keywords[k], SearchableText(item))

matches_topic(item, keywords) ==
    IF keywords = <<>> THEN FALSE
    ELSE \E k \in 1..Len(keywords) : Contains(Lower(keywords[k]), SearchableText(item))

\* Line 39-40 on values that are None: `'summary' in None` and `None + " "`
\* raise TypeError (after the early return of lines 27-28).
MatchRaises(item, keywords) ==
    /\ keywords # <<>>
    /\ "analysis" \in DOMAIN item
    /\ \/ "isNone" \in DOMAIN item.analysis
       \/ "summary" \in DOMAIN item.analysis /\ item.analysis.summary = Null

\* What a call of matches_topic gives: "True", "False" or "TypeError".
matches_topic_outcome(item, keywords) ==
    IF MatchRaises(item, keywords) THEN "TypeError"
    ELSE IF matches_topic(item, keywords) THEN "True" ELSE "False"

ItemScore(item) ==
    IF "analysis" \in DOMAIN item /\ "score" \in DOMAIN item.analysis
    THEN item.analysis.score ELSE 0

\* Mutant: the score threshold is not applied.
QualifiesKeywordOnly(item, topic) == matches_topic(item, topic.keywords)

Qualifies(item, topic) ==
    /\ matches_topic(item, topic.keywords)
    /\ ~(ItemScore(item) < topic.score_threshold)

RECURSIVE filter_items_by_topic(_, _)
filter_items_by_topic(items, topic) ==
    IF items = <<>> THEN <<>>
    ELSE IF Qualifies(items[1], topic)
         THEN <<items[1]>> \o filter_items_by_topic(Tail(items), topic)
         ELSE filter_items_by_topic(Tail(items), topic)

\* filter_items_by_topic calls matches_topic on every item of the batch (line
\* 74) and does not catch what it raises.
FilterRaises(items, topic) ==
    \E i \in 1..Len(items) : MatchRaises(items[i], topic.keywords)

(***************************************************************************)
(* notifiers/__init__.py: the delivery state and its file.                 *)
(***************************************************************************)
NoTopics == [t \in {} |-> 0]

EmptyState == [topics |-> NoTopics]

NewTopicState == [slack_sent |-> <<>>, sheets_logged |-> <<>>]

AbsentFile == [kind |-> "absent", data |-> EmptyState]

\* open(STATE_FILE, 'w') has truncated the file and json.dump has not finished:
\* what is on disk is not a JSON document.
PartialFile == [kind |-> "partial", data |-> EmptyState]

\* Mutant: the flat lists are carried over as the lists of a topic.
_migrate_state_format_keeps_flat(data) ==
    IF "topics" \in DOMAIN data THEN data
    ELSE [topics |-> [t \in {"t1"} |->
            [slack_sent |-> IF "slack_sent" \in DOMAIN data
                            THEN data.slack_sent ELSE <<>>,
             sheets_logged |-> IF "sheets_logged" \in DOMAIN data
                               THEN data.sheets_logged ELSE <<>>]]]

_migrate_state_format(data) ==
    IF "topics" \in DOMAIN data THEN data ELSE EmptyState

\* [raised |-> FALSE, state |-> the dict returned] or [raised |-> TRUE] when
\* json.load raises (nothing in load_notification_state catches it).
load_notification_state(f) ==
    IF f.kind = "absent" THEN [raised |-> FALSE, state |-> EmptyState]
    ELSE IF f.kind = "valid"
         THEN [raised |-> FALSE, state |-> _migrate_state_format(f.data)]
         ELSE [raised |-> TRUE, state |-> EmptyState]

_get_or_create_topic_state(t, st) ==
    IF t \in DOMAIN st.topics THEN st
    ELSE [st EXCEPT !.topics = [x \in (DOMAIN st.topics) \cup {t} |->
                                  IF x = t THEN NewTopicState ELSE st.topics[x]]]

initialize_topic_state(t, st) == _get_or_create_topic_state(t, st)

is_topic_slack_sent(t, g, st) ==
    g \in Range(_get_or_create_topic_state(t, st).topics[t].slack_sent)

\* Mutant: the guid is appended without the membership test of line 133.
mark_topic_slack_sent_always_appends(t, g, st) ==
    LET s1 == _get_or_create_topic_state(t, st)
    IN  [s1 EXCEPT !.topics[t].slack_sent = Append(@, g)]

mark_topic_slack_sent(t, g, st) ==
    LET s1 == _get_or_create_topic_state(t, st)
    IN  IF g \in Range(s1.topics[t].slack_sent) THEN s1
        ELSE [s1 EXCEPT !.topics[t].slack_sent = Append(@, g)]

\* The legacy global check (lines 89-91): it reads the top-level list.
is_sheets_logged(g, st) ==
    IF "sheets_logged" \in DOMAIN st THEN g \in Range(st.sheets_logged) ELSE FALSE

\* Mutant: the per-topic check reads the legacy global list.
is_topic_sheets_logged_legacy(t, g, st) == is_sheets_logged(g, st)

is_topic_sheets_logged(t, g, st) ==
    g \in Range(_get_or_create_topic_state(t, st).topics[t].sheets_logged)

\* Mutant: the guid is appended to the sheets_logged list of every topic in the
\* state, not only to topic t's.
mark_topic_sheets_logged_all_topics(t, g, st) ==
    LET s1 == _get_or_create_topic_state(t, st)
    IN  [s1 EXCEPT !.topics =
            [x \in DOMAIN s1.topics |->
                IF g \in Range(s1.topics[x].sheets_logged) THEN s1.topics[x]
                ELSE [s1.topics[x] EXCEPT !.sheets_logged = Append(@, g)]]]

mark_topic_sheets_logged(t, g, st) ==
    LET s1 == _get_or_create_topic_state(t, st)
    IN  IF g \in Range(s1.topics[t].sheets_logged) THEN s1
        ELSE [s1 EXCEPT !.topics[t].sheets_logged = Append(@, g)]

\* Mutant: the state is written as it is, without the stamp of line 66.
save_notification_state_unstamped(st, clock) == st

\* Line 66: state["last_updated"] = datetime.now().isoformat(); the dict that
\* json.dump then writes (and that the caller keeps).
save_notification_state(st, clock) ==
    [k \in DOMAIN st \cup {"last_updated"} |->
        IF k = "last_updated" THEN clock ELSE st[k]]

(***************************************************************************)
(* The sink adapters. `out` is what the transport did: "ok" or "error".    *)
(* The result is "True" or "False" (or "raise" if the adapter let the      *)
(* transport's exception escape).                                          *)
(***************************************************************************)
Transport == {"ok", "error"}

\* Mutant: the adapter has no try/except, the transport's exception escapes.
append_item_to_sheet_raises(out) == IF out = "ok" THEN "True" ELSE "raise"

append_item_to_sheet(out) == IF out = "ok" THEN "True" ELSE "False"

send_slack_notification(out) == IF out = "ok" THEN "True" ELSE "False"

(***************************************************************************)
(* scraper.py: identify_new_items.                                         *)
(***************************************************************************)
RECURSIVE NotSeen(_, _)
NotSeen(all_items, seen) ==
    IF all_items = <<>> THEN <<>>
    ELSE IF all_items[1].guid \notin seen
         THEN <<all_items[1]>> \o NotSeen(Tail(all_items), seen)
         ELSE NotSeen(Tail(all_items), seen)

identify_new_items(all_items, seen) ==
    [new_items |-> NotSeen(all_items, seen),
     processed |-> seen \cup {all_items[i].guid : i \in 1..Len(all_items)}]

(***************************************************************************)
(* pipeline.main: helpers.                                                 *)
(***************************************************************************)
Delivered(st, t, sink, g) ==
    /\ t \in DOMAIN st.topics
    /\ g \in Range(IF sink = "log" THEN st.topics[t].sheets_logged
                   ELSE st.topics[t].slack_sent)

\* Mutant: the guid is marked whatever append_item_to_sheet returned.
LogAttemptMarksAlways(t, g, st, out) ==
    IF ~is_topic_sheets_logged(t, g, st)
    THEN [called |-> TRUE, result |-> append_item_to_sheet(out),
          state |-> mark_topic_sheets_logged(t, g, st)]
    ELSE [called |-> FALSE, result |-> "none",
          state |-> _get_or_create_topic_state(t, st)]

\* Lines 186-191: the log-sink attempt for one matching item.
LogAttempt(t, g, st, out) ==
    IF ~is_topic_sheets_logged(t, g, st)
    THEN LET r == append_item_to_sheet(out)
         IN  [called |-> TRUE, result |-> r,
              state |-> IF r = "True" THEN mark_topic_sheets_logged(t, g, st)
                        ELSE _get_or_create_topic_state(t, st)]
    ELSE [called |-> FALSE, result |-> "none",
          state |-> _get_or_create_topic_state(t, st)]

\* Lines 193-205: the chat-sink attempt for one matching item.
SlackAttempt(topic, item, st, out) ==
    IF /\ topic.slack_webhook
       /\ item.analysis.score >= topic.score_threshold
       /\ ~is_topic_slack_sent(topic.id, item.guid, st)
    THEN LET r == send_slack_notification(out)
         IN  [called |-> TRUE, result |-> r,
              state |-> IF r = "True"
                        THEN mark_topic_slack_sent(topic.id, item.guid, st)
                        ELSE _get_or_create_topic_state(topic.id, st)]
    ELSE [called |-> FALSE, result |-> "none",
          state |-> IF topic.slack_webhook
                       /\ item.analysis.score >= topic.score_threshold
                    THEN _get_or_create_topic_state(topic.id, st) ELSE st]

InnerTry ==
    {"sleep_first", "load_topics", "sleep_notopics", "scrape", "sleep_noitems",
     "analyze", "topic_loop", "get_worksheet", "item_log", "item_slack"}

Sleeps == {"sleep_first", "sleep_notopics", "sleep_noitems", "sleep_poll"}

Startup == {"start", "init_sheets", "load_state"}

Saving == {"save_open", "save_write"}

Ended == {"exited", "crashed"}

ClearLocals ==
    /\ topics' = <<>>
    /\ new_items' = <<>>
    /\ analyzed_items' = <<>>
    /\ ti' = 0
    /\ matching_items' = <<>>
    /\ ii' = 0

KeepLocals == UNCHANGED <<topics, new_items, analyzed_items, ti, matching_items, ii>>

KeepHistory ==
    UNCHANGED <<succ, succCount, dupCall, attempted, failedNow, pending, wsFailed, intAt>>

KeepDisk == UNCHANGED <<stateFile, processed>>

\* The orchestrator's steps do not read the clock (its state carries no
\* last_updated stamp), and only list_active_topics is recorded as a call.
KeepCall == UNCHANGED <<call, now>>

NoCall == [fn |-> "none"]

\* The history of one sink attempt `a` for the triple x = <<topic, sink, guid>>.
Record(x, a) ==
    /\ succ' = IF a.result = "True" THEN succ \cup {x} ELSE succ
    /\ succCount' = IF a.result = "True" /\ succCount[x] < 2
                    THEN [succCount EXCEPT ![x] = @ + 1] ELSE succCount
    /\ dupCall' = (dupCall \/ (a.called /\ Delivered(state, x[1], x[2], x[3])))
    /\ attempted' = IF a.called THEN attempted \cup {x} ELSE attempted
    /\ failedNow' = IF ~a.called THEN failedNow
                    ELSE IF a.result = "True" THEN failedNow \ {x}
                    ELSE failedNow \cup {x}
    /\ pending' = IF a.called THEN pending \ {x} ELSE pending
    /\ UNCHANGED <<wsFailed, intAt>>

\* Mutant: the iteration's exception is not caught and ends the process.
RaisedEndsProcess(site) ==
    /\ pc' = "crashed"
    /\ exc' = site
    /\ endCause' = "exception"
    /\ UNCHANGED <<ctx, iteration>>

\* `except Exception` at lines 218-224: print, then time.sleep(60).
Raised(site) ==
    /\ pc' = "cooldown"
    /\ exc' = site
    /\ UNCHANGED <<ctx, iteration, endCause>>

Init ==
    /\ pc = "start"
    /\ ctx = "iter"
    /\ iteration = 0
    /\ state = EmptyState
    /\ stateFile = AbsentFile
    /\ processed = {}
    /\ topics = <<>>
    /\ new_items = <<>>
    /\ analyzed_items = <<>>
    /\ ti = 0
    /\ matching_items = <<>>
    /\ ii = 0
    /\ exc = "none"
    /\ endCause = "none"
    /\ succ = {}
    /\ succCount = [x \in Triples |-> 0]
    /\ dupCall = FALSE
    /\ attempted = {}
    /\ failedNow = {}
    /\ pending = {}
    /\ wsFailed = {}
    /\ intAt = <<"none", "none">>
    /\ call = NoCall
    /\ now = 0

(***************************************************************************)
(* pipeline.main: startup (lines 79-95).                                   *)
(***************************************************************************)
\* The exit status of the process for each way it ends: sys.exit(1) at lines 81
\* and 89, 0 when main returns after an interrupt handler, 1 for an uncaught
\* exception, 137 for a kill.
ExitStatus(cause) ==
    IF cause = "interrupt" THEN 0
    ELSE IF cause = "kill" THEN 137
    ELSE 1

\* Mutant: the configuration is validated after the state has been loaded.
ValidateAfterLoad ==
    /\ pc = "start"
    /\ KeepCall
    /\ \E ok \in BOOLEAN :
         IF ok THEN pc' = "init_sheets" /\ endCause' = endCause /\ state' = state
         ELSE /\ pc' = "exited" /\ endCause' = "config"
              /\ state' = load_notification_state(stateFile).state
    /\ UNCHANGED <<ctx, iteration, exc>>
    /\ KeepLocals /\ KeepHistory /\ KeepDisk

\* validate_configuration: on failure sys.exit(1).
ValidateConfiguration ==
    /\ pc = "start"
    /\ KeepCall
    /\ \E ok \in BOOLEAN :
         IF ok THEN pc' = "init_sheets" /\ endCause' = endCause
         ELSE pc' = "exited" /\ endCause' = "config"
    /\ UNCHANGED <<ctx, iteration, state, exc>>
    /\ KeepLocals /\ KeepHistory /\ KeepDisk

\* init_sheets_client: on any exception sys.exit(1).
InitSheets ==
    /\ pc = "init_sheets"
    /\ KeepCall
    /\ \E ok \in BOOLEAN :
         IF ok THEN pc' = "load_state" /\ endCause' = endCause
         ELSE pc' = "exited" /\ endCause' = "sheets_init"
    /\ UNCHANGED <<ctx, iteration, state, exc>>
    /\ KeepLocals /\ KeepHistory /\ KeepDisk

\* Mutant: the process starts from an empty state whatever the file holds.
LoadStateIgnoresFile ==
    /\ pc = "load_state"
    /\ KeepCall
    /\ LET r == load_notification_state(stateFile)
       IN  IF r.raised
           THEN pc' = "crashed" /\ endCause' = "load_state" /\ state' = state
           ELSE pc' = "loop_top" /\ endCause' = endCause /\ state' = EmptyState
    /\ UNCHANGED <<ctx, iteration, exc>>
    /\ KeepLocals /\ KeepHistory /\ KeepDisk

\* state = load_notification_state(), outside every try block.
LoadState ==
    /\ pc = "load_state"
    /\ KeepCall
    /\ LET r == load_notification_state(stateFile)
       IN  IF r.raised
           THEN pc' = "crashed" /\ endCause' = "load_state" /\ state' = state
           ELSE pc' = "loop_top" /\ endCause' = endCause /\ state' = r.state
    /\ UNCHANGED <<ctx, iteration, exc>>
    /\ KeepLocals /\ KeepHistory /\ KeepDisk

(***************************************************************************)
(* pipeline.main: the polling loop (lines 97-228).                         *)
(***************************************************************************)
\* Mutant: no first-iteration test, every iteration goes on to the topics.
LoopTopNoWarmUp ==
    /\ pc = "loop_top"
    /\ call' = NoCall
    /\ now' = now
    /\ iteration < MaxIterations
    /\ iteration' = iteration + 1
    /\ pc' = "load_topics"
    /\ pending' = pending \cup failedNow
    /\ failedNow' = {}
    /\ attempted' = {}
    /\ wsFailed' = {}
    /\ UNCHANGED <<ctx, state, exc, endCause, succ, succCount, dupCall, intAt>>
    /\ KeepLocals /\ KeepDisk

\* `while True: iteration += 1`, then the first-iteration test of line 107.
LoopTop ==
    /\ pc = "loop_top"
    /\ call' = NoCall
    /\ now' = now
    /\ iteration < MaxIterations
    /\ iteration' = iteration + 1
    /\ pc' = IF iteration' = 1 THEN "sleep_first" ELSE "load_topics"
    /\ pending' = pending \cup failedNow
    /\ failedNow' = {}
    /\ attempted' = {}
    /\ wsFailed' = {}
    /\ UNCHANGED <<ctx, state, exc, endCause, succ, succCount, dupCall, intAt>>
    /\ KeepLocals /\ KeepDisk

\* time.sleep(POLL_INTERVAL) returns: lines 111-112, 122-123, 133-134 (continue)
\* and line 228 (end of the loop body).
SleepDone ==
    /\ pc \in Sleeps
    /\ KeepCall
    /\ pc' = "loop_top"
    /\ UNCHANGED <<ctx, iteration, state, exc, endCause>>
    /\ ClearLocals /\ KeepHistory /\ KeepDisk

\* time.sleep(60) of the `except Exception` handler returns, then `continue`.
CooldownDone ==
    /\ pc = "cooldown"
    /\ KeepCall
    /\ pc' = "loop_top"
    /\ exc' = "none"
    /\ UNCHANGED <<ctx, iteration, state, endCause>>
    /\ ClearLocals /\ KeepHistory /\ KeepDisk

\* Mutant: the topics are not filtered by their active flag.
LoadTopicsIgnoresActive ==
    /\ pc = "load_topics"
    /\ now' = now
    /\ \E act \in SUBSET TopicIds :
         /\ call' = [fn |-> "list_active_topics", active |-> act]
         /\ topics' = TopicOrder
         /\ pc' = "scrape"
    /\ UNCHANGED <<ctx, iteration, state, exc, endCause, new_items, analyzed_items,
                   ti, matching_items, ii>>
    /\ KeepHistory /\ KeepDisk

\* Mutant: no test for an empty topic list, the iteration always goes on to
\* the fetch.
LoadTopicsAlwaysFetches ==
    /\ pc = "load_topics"
    /\ now' = now
    /\ \E act \in SUBSET TopicIds :
         /\ call' = [fn |-> "list_active_topics", active |-> act]
         /\ topics' = SelectItems(TopicOrder, act)
         /\ pc' = "scrape"
    /\ UNCHANGED <<ctx, iteration, state, exc, endCause, new_items, analyzed_items,
                   ti, matching_items, ii>>
    /\ KeepHistory /\ KeepDisk

\* topics = topic_manager.list_active_topics(): the rows that are active now, in
\* row order; load_topics returns [] when the worksheet cannot be read. `call`
\* keeps which topics were active at this read.
LoadTopics ==
    /\ pc = "load_topics"
    /\ now' = now
    /\ \E act \in SUBSET TopicIds :
         /\ call' = [fn |-> "list_active_topics", active |-> act]
         /\ topics' = SelectItems(TopicOrder, act)
         /\ pc' = IF topics' = <<>> THEN "sleep_notopics" ELSE "scrape"
    /\ UNCHANGED <<ctx, iteration, state, exc, endCause, new_items, analyzed_items,
                   ti, matching_items, ii>>
    /\ KeepHistory /\ KeepDisk

\* new_items = scraper.main(): fetch_all_content, identify_new_items (which
\* rewrites the seen ledger), save_current_items; any exception is re-raised.
Scrape ==
    /\ pc = "scrape"
    /\ KeepCall
    /\ \E feed \in Feeds, out \in {"ok", "raise_before_ledger", "raise_after_ledger"} :
         LET r == identify_new_items(feed, processed)
         IN  \/ /\ out = "ok"
                /\ processed' = r.processed
                /\ new_items' = r.new_items
                /\ pc' = IF r.new_items = <<>> THEN "sleep_noitems" ELSE "analyze"
                /\ UNCHANGED <<ctx, iteration, exc, endCause>>
             \/ /\ out = "raise_before_ledger"
                /\ processed' = processed
                /\ new_items' = new_items
                /\ Raised("scrape")
             \/ /\ out = "raise_after_ledger"
                /\ processed' = r.processed
                /\ new_items' = new_items
                /\ Raised("scrape")
    /\ UNCHANGED <<state, stateFile, topics, analyzed_items, ti, matching_items, ii>>
    /\ KeepHistory

\* analyzed_items = analyzer.analyze_all_items(new_items); a failed call to the
\* model gives the failure sentinel, a reply that is JSON but no object raises.
Analyze ==
    /\ pc = "analyze"
    /\ KeepCall
    /\ \/ /\ \E res \in [1..Len(new_items) -> AnalysisResults] :
               analyzed_items' =
                   [i \in 1..Len(new_items) |->
                       [guid |-> new_items[i].guid, title |-> new_items[i].title,
                        description |-> new_items[i].description,
                        analysis |-> res[i]]]
          /\ pc' = "topic_loop"
          /\ ti' = 1
          /\ UNCHANGED <<ctx, iteration, exc, endCause>>
       \/ /\ Raised("analyze")
          /\ UNCHANGED <<analyzed_items, ti>>
    /\ UNCHANGED <<state, topics, new_items, matching_items, ii>>
    /\ KeepHistory /\ KeepDisk

\* `for topic in topics:` lines 147-166; after the last topic, line 208.
NextTopic ==
    /\ pc = "topic_loop"
    /\ KeepCall
    /\ IF ti > Len(topics)
       THEN /\ pc' = "save_open"
            /\ ctx' = "iter"
            /\ UNCHANGED <<state, ti, matching_items, ii>>
       ELSE LET m == filter_items_by_topic(analyzed_items, Topic(topics[ti]))
            IN  /\ state' = initialize_topic_state(topics[ti], state)
                /\ ctx' = ctx
                /\ IF m = <<>>
                   THEN /\ pc' = "topic_loop"
                        /\ ti' = ti + 1
                        /\ UNCHANGED <<matching_items, ii>>
                   ELSE /\ pc' = "get_worksheet"
                        /\ matching_items' = m
                        /\ UNCHANGED <<ti, ii>>
    /\ UNCHANGED <<iteration, exc, endCause, topics, new_items, analyzed_items>>
    /\ KeepHistory /\ KeepDisk

\* Mutant: the item loop starts with the chat sink, without the log sink.
GetWorksheetChatFirst ==
    /\ pc = "get_worksheet"
    /\ KeepCall
    /\ \E out \in Transport :
         IF out = "ok"
         THEN /\ pc' = "item_slack"
              /\ ii' = 1
              /\ UNCHANGED <<ti, matching_items, wsFailed>>
         ELSE /\ pc' = "topic_loop"
              /\ ti' = ti + 1
              /\ matching_items' = <<>>
              /\ wsFailed' = wsFailed \cup {topics[ti]}
              /\ ii' = ii
    /\ UNCHANGED <<ctx, iteration, state, exc, endCause, topics, new_items,
                   analyzed_items, succ, succCount, dupCall, attempted, failedNow,
                   pending, intAt>>
    /\ KeepDisk

\* Lines 168-177: get_or_create_topic_worksheet; on an exception `continue`
\* with the next topic.
GetWorksheet ==
    /\ pc = "get_worksheet"
    /\ KeepCall
    /\ \E out \in Transport :
         IF out = "ok"
         THEN /\ pc' = "item_log"
              /\ ii' = 1
              /\ UNCHANGED <<ti, matching_items, wsFailed>>
         ELSE /\ pc' = "topic_loop"
              /\ ti' = ti + 1
              /\ matching_items' = <<>>
              /\ wsFailed' = wsFailed \cup {topics[ti]}
              /\ ii' = ii
    /\ UNCHANGED <<ctx, iteration, state, exc, endCause, topics, new_items,
                   analyzed_items, succ, succCount, dupCall, attempted, failedNow,
                   pending, intAt>>
    /\ KeepDisk

\* Mutant: the state file is rewritten right after the log-sink call.
LogItemSavesAtOnce ==
    /\ pc = "item_log"
    /\ KeepCall
    /\ \E out \in Transport :
         LET t == topics[ti]
             g == matching_items[ii].guid
             a == LogAttempt(t, g, state, out)
         IN  /\ Record(<<t, "log", g>>, a)
             /\ IF a.result = "raise"
                THEN Raised("route") /\ state' = state
                ELSE /\ pc' = "item_slack"
                     /\ state' = a.state
                     /\ UNCHANGED <<ctx, iteration, exc, endCause>>
    /\ KeepLocals
    /\ stateFile' = [kind |-> "valid", data |-> state']
    /\ UNCHANGED processed

\* Lines 180-191: the log sink for matching_items[ii].
LogItem ==
    /\ pc = "item_log"
    /\ KeepCall
    /\ \E out \in Transport :
         LET t == topics[ti]
             g == matching_items[ii].guid
             a == LogAttempt(t, g, state, out)
         IN  /\ Record(<<t, "log", g>>, a)
             /\ IF a.result = "raise"
                THEN Raised("route") /\ state' = state
                ELSE /\ pc' = "item_slack"
                     /\ state' = a.state
                     /\ UNCHANGED <<ctx, iteration, exc, endCause>>
    /\ KeepLocals /\ KeepDisk

\* Lines 193-205: the chat sink for matching_items[ii]; then the next item, or
\* the next topic after the last item.
SlackItem ==
    /\ pc = "item_slack"
    /\ KeepCall
    /\ \E out \in Transport :
         LET t == topics[ti]
             item == matching_items[ii]
             a == SlackAttempt(Topic(t), item, state, out)
         IN  /\ Record(<<t, "slack", item.guid>>, a)
             /\ IF a.result = "raise"
                THEN /\ Raised("route") /\ state' = state
                     /\ UNCHANGED <<ti, matching_items, ii>>
                ELSE /\ state' = a.state
                     /\ UNCHANGED <<ctx, iteration, exc, endCause>>
                     /\ IF ii < Len(matching_items)
                        THEN /\ pc' = "item_log"
                             /\ ii' = ii + 1
                             /\ UNCHANGED <<ti, matching_items>>
                        ELSE /\ pc' = "topic_loop"
                             /\ ti' = ti + 1
                             /\ matching_items' = <<>>
                             /\ ii' = 0
    /\ UNCHANGED <<topics, new_items, analyzed_items>>
    /\ KeepDisk

(***************************************************************************)
(* save_notification_state (notifiers/__init__.py lines 64-72), in steps.  *)
(***************************************************************************)
\* An exception leaves save_notification_state: inside the iteration it reaches
\* `except Exception`; inside a KeyboardInterrupt handler nothing catches it.
SaveRaised ==
    IF ctx = "iter"
    THEN Raised("save") /\ UNCHANGED <<state>> /\ KeepLocals
    ELSE /\ pc' = "crashed"
         /\ endCause' = "shutdown_save"
         /\ state' = EmptyState
         /\ exc' = "none"
         /\ UNCHANGED <<ctx, iteration>>
         /\ ClearLocals

\* mkdir, then open(STATE_FILE, 'w'): the file is truncated in place.
SaveOpen ==
    /\ pc = "save_open"
    /\ KeepCall
    /\ \E out \in Transport :
         IF out = "ok"
         THEN /\ stateFile' = PartialFile
              /\ pc' = "save_write"
              /\ UNCHANGED <<ctx, iteration, state, exc, endCause>>
              /\ KeepLocals
         ELSE /\ stateFile' = stateFile
              /\ SaveRaised
    /\ UNCHANGED processed
    /\ KeepHistory

\* What follows a completed save: line 228 after line 208, `break` after line
\* 214, the end of main after line 232.
AfterSave ==
    IF ctx = "iter"
    THEN pc' = "sleep_poll" /\ endCause' = endCause
    ELSE pc' = "exited" /\ endCause' = "interrupt"

\* json.dump(state, f, indent=2) and the close of the file.
SaveWrite ==
    /\ pc = "save_write"
    /\ KeepCall
    /\ \E out \in Transport :
         IF out = "ok"
         THEN /\ stateFile' = [kind |-> "valid", data |-> state]
              /\ AfterSave
              /\ UNCHANGED <<ctx, iteration, state, exc>>
              /\ ClearLocals
         ELSE /\ stateFile' = stateFile
              /\ SaveRaised
    /\ UNCHANGED processed
    /\ KeepHistory

(***************************************************************************)
(* Signals, process death and restart.                                     *)
(***************************************************************************)
\* The handler a KeyboardInterrupt raised at position p reaches: the inner
\* `except KeyboardInterrupt` (line 212) from inside the inner try, the outer one
\* (line 230) from the rest of the loop, from the `except Exception` handler and
\* from the inner handler itself; none before the loop or in the outer handler.
Handler(p, c) ==
    IF p \in InnerTry \/ (p \in Saving /\ c = "iter") THEN "inner"
    ELSE IF p \in {"loop_top", "sleep_poll", "cooldown"} \/ (p \in Saving /\ c = "inner")
         THEN "outer"
         ELSE "none"

\* Mutant: the outer handler exits without saving.
HandlerSavesInnerOnly(h) == h = "inner"

\* Both handlers call save_notification_state(state) (lines 214 and 232).
HandlerSaves(h) == h \in {"inner", "outer"}

Interrupt ==
    /\ pc \notin Ended
    /\ KeepCall
    /\ LET h == Handler(pc, ctx)
       IN  IF h = "none"
           THEN /\ pc' = "crashed"
                /\ endCause' = "interrupt_unhandled"
                /\ state' = EmptyState
                /\ UNCHANGED <<ctx, iteration>>
           ELSE /\ ctx' = h
                /\ IF HandlerSaves(h)
                   THEN pc' = "save_open" /\ endCause' = endCause
                   ELSE pc' = "exited" /\ endCause' = "interrupt"
                /\ UNCHANGED <<state, iteration>>
    /\ exc' = "none"
    /\ intAt' = <<pc, ctx>>
    /\ ClearLocals
    /\ UNCHANGED <<succ, succCount, dupCall, attempted, failedNow, pending, wsFailed>>
    /\ KeepDisk

\* The process is killed (SIGKILL, power loss): memory is gone, the disk stays.
Kill ==
    /\ pc \notin Ended
    /\ KeepCall
    /\ pc' = "crashed"
    /\ endCause' = "kill"
    /\ state' = EmptyState
    /\ exc' = "none"
    /\ UNCHANGED <<ctx, iteration>>
    /\ ClearLocals /\ KeepHistory /\ KeepDisk

\* The service is started again on the same data directory.
Restart ==
    /\ pc \in Ended
    /\ call' = NoCall
    /\ now' = now
    /\ pc' = "start"
    /\ ctx' = "iter"
    /\ iteration' = 0
    /\ state' = EmptyState
    /\ exc' = "none"
    /\ endCause' = "none"
    /\ succCount' = [x \in Triples |-> 0]
    /\ dupCall' = FALSE
    /\ attempted' = {}
    /\ failedNow' = {}
    /\ pending' = {}
    /\ wsFailed' = {}
    /\ intAt' = <<"none", "none">>
    /\ UNCHANGED succ
    /\ ClearLocals /\ KeepDisk

Next ==
    \/ ValidateConfiguration
    \/ InitSheets
    \/ LoadState
    \/ LoopTop
    \/ SleepDone
    \/ CooldownDone
    \/ LoadTopics
    \/ Scrape
    \/ Analyze
    \/ NextTopic
    \/ GetWorksheet
    \/ LogItem
    \/ SlackItem
    \/ SaveOpen
    \/ SaveWrite
    \/ Interrupt
    \/ Kill
    \/ Restart

Spec == Init /\ [][Next]_vars

(***************************************************************************)
(* Properties.                                                             *)
(***************************************************************************)
RoutingDone == pc = "save_open" /\ ctx = "iter"

MatchingOf(t) == filter_items_by_topic(analyzed_items, Topic(t))

\* C1. Ledger soundness: a guid is in a topic's sheets_logged list only if
\* append_item_to_sheet has returned success for that topic and guid, and in its
\* slack_sent list only if send_slack_notification has.
LedgerSound ==
    \A t \in DOMAIN state.topics :
        /\ \A g \in Range(state.topics[t].sheets_logged) : <<t, "log", g>> \in succ
        /\ \A g \in Range(state.topics[t].slack_sent) : <<t, "slack", g>> \in succ

\* A log-sink call has failed for (t2, g1) in this iteration while (t1, g1) is
\* marked for both sinks.
LedgerSoundWitness ==
    /\ Delivered(state, "t1", "log", "g1")
    /\ Delivered(state, "t1", "slack", "g1")
    /\ <<"t2", "log", "g1">> \in failedNow

\* C2. At most one successful delivery: in one process run no sink adapter
\* returns success twice for the same (topic, sink, guid), and none is called
\* for a triple already marked as delivered.
AtMostOnce ==
    /\ \A x \in Triples : succCount[x] <= 1
    /\ ~dupCall

\* The same guid is twice in the matching items of a topic; the first occurrence
\* was logged, and the second has passed the log step.
AtMostOnceWitness ==
    /\ pc = "item_slack"
    /\ ii = 2
    /\ matching_items[1].guid = matching_items[2].guid
    /\ succCount[<<topics[ti], "log", matching_items[2].guid>>] = 1

\* C3. Retry after a sink failure: when an iteration has finished routing, no
\* delivery that failed in an earlier iteration for a topic that is active now
\* is left without a new attempt.
RetryAfterFailure ==
    RoutingDone => \A x \in pending : x[1] \notin Range(topics)

\* C4. Routing isolation across items and topics: a sink failure does not abort
\* the iteration, and when routing is done every matching item of every topic
\* whose worksheet was obtained has had its sink attempts (or was already
\* marked).
RoutingIsolation ==
    /\ exc # "route"
    /\ RoutingDone =>
         \A i \in 1..Len(topics) :
            topics[i] \notin wsFailed =>
              \A k \in 1..Len(MatchingOf(topics[i])) :
                 LET t == topics[i]
                     g == MatchingOf(t)[k].guid
                 IN  /\ \/ <<t, "log", g>> \in attempted
                        \/ Delivered(state, t, "log", g)
                     /\ Topic(t).slack_webhook =>
                          \/ <<t, "slack", g>> \in attempted
                          \/ Delivered(state, t, "slack", g)

\* The log sink failed for g1 of topic t1; g2 of t1 and g1 of t2 were attempted
\* and logged, and the iteration is at its save.
RoutingIsolationWitness ==
    /\ RoutingDone
    /\ <<"t1", "log", "g1">> \in failedNow
    /\ Delivered(state, "t1", "log", "g2")
    /\ Delivered(state, "t2", "log", "g1")
    /\ <<"t1", "log", "g2">> \in attempted
    /\ <<"t2", "log", "g1">> \in attempted

\* C5. Routing isolation across sinks: when routing is done, every matching item
\* of every active topic with a webhook has had its chat-sink attempt (or was
\* already marked), whatever happened to the topic's log sink.
SinkIsolation ==
    RoutingDone =>
      \A i \in 1..Len(topics) :
         Topic(topics[i]).slack_webhook =>
           \A k \in 1..Len(MatchingOf(topics[i])) :
              LET t == topics[i]
                  g == MatchingOf(t)[k].guid
              IN  \/ <<t, "slack", g>> \in attempted
                  \/ Delivered(state, t, "slack", g)

\* C6. Crash-safe save: after the process has died, the state file is absent or
\* a complete JSON document, never a truncated one.
CrashSafeSave ==
    pc = "crashed" => stateFile.kind \in {"absent", "valid"}

\* C7. Fail-open load: a corrupt state file does not end the process at
\* load_notification_state.
FailOpenLoad ==
    ~(pc = "crashed" /\ endCause = "load_state")

\* C8. Iteration-boundary recovery: an exception raised inside an iteration
\* leads to the cooldown sleep with the in-memory state unchanged, the cooldown
\* ends in a new iteration with that state, and the process does not end while
\* an exception is being handled.
IterationRecovery ==
    /\ [](exc # "none" => pc = "cooldown")
    /\ [][(exc = "none" /\ exc' # "none") => (pc' = "cooldown" /\ state' = state)]_vars
    /\ [][(pc = "cooldown" /\ pc' # "cooldown" /\ intAt' = intAt /\ endCause' = endCause)
            => (pc' = "loop_top" /\ state' = state /\ iteration' = iteration)]_vars

\* The save of iteration 2 raised in the middle of its write (the file is
\* truncated), and the loop is in iteration 3 with the marks of iteration 2.
IterationRecoveryWitness ==
    /\ pc = "load_topics"
    /\ iteration = 3
    /\ stateFile.kind = "partial"
    /\ Delivered(state, "t1", "log", "g1")

\* C9. Graceful shutdown: an interrupt signal that arrives once the loop has
\* started leads to save_notification_state on the unchanged in-memory state,
\* and when the process exits after it the state file holds the in-memory state.
ShutdownPersists ==
    /\ []((pc = "exited" /\ endCause = "interrupt")
            => stateFile = [kind |-> "valid", data |-> state])
    /\ [][(intAt' # intAt /\ Handler(pc, ctx) # "none")
            => (pc' = "save_open" /\ state' = state)]_vars

\* The interrupt arrived in the middle of an iteration, after g1 was logged for
\* t1 and before the iteration's save; the process has exited.
ShutdownPersistsWitness ==
    /\ pc = "exited"
    /\ endCause = "interrupt"
    /\ intAt = <<"item_slack", "iter">>
    /\ Delivered(state, "t1", "log", "g1")
    /\ stateFile.data = state

\* C10. Only configuration errors are fatal: the process ends only through a
\* failed startup validation (or sheets client initialisation), an interrupt
\* signal or an external kill.
OnlyConfigFatal ==
    pc \in Ended =>
        endCause \in {"config", "sheets_init", "interrupt", "interrupt_unhandled",
                      "shutdown_save", "kill"}

(***************************************************************************)
(* The matcher on its own: matches_topic and filter_items_by_topic applied *)
(* to inputs drawn from bounded sets.                                      *)
(***************************************************************************)
\* A dict with the keys that are given: `has` says which of the three are.
MkItem(has, t, d, a) ==
    [k \in has |-> IF k = "title" THEN t ELSE IF k = "description" THEN d ELSE a]

TextValues == {<<>>, Null, <<1>>, <<2>>, <<11, 2>>}

AnalysisChoices == 1..6

AnalysisValue(i) ==
    CASE i = 1 -> NullAnalysis
      [] i = 2 -> [score |-> 8]
      [] i = 3 -> [score |-> 8, summary |-> <<>>]
      [] i = 4 -> [score |-> 8, summary |-> Null]
      [] i = 5 -> [score |-> 8, summary |-> <<3>>]
      [] i = 6 -> [score |-> 8, summary |-> <<2>>]

KeywordValues == {<<1>>, <<1, 2>>, <<11, 12>>, <<1, 0, 2>>}

KeywordLists == UNION {[1..n -> KeywordValues] : n \in 0..MaxKeywords}

MatchInputs ==
    { [fn |-> "match_in", item |-> MkItem(has, t, d, AnalysisValue(a)), keywords |-> kws] :
        has \in SUBSET {"title", "description", "analysis"},
        t \in TextValues, d \in {<<>>, Null, <<2>>}, a \in AnalysisChoices,
        kws \in KeywordLists }

\* Analysed items as the orchestrator passes them: text fields present, the
\* score possibly missing.
FilterItemChoices == 1..6

FilterItem(i) ==
    CASE i = 1 -> [guid |-> "g1", title |-> <<11, 2>>, description |-> <<>>,
                   analysis |-> [score |-> 8, summary |-> <<>>]]
      [] i = 2 -> [guid |-> "g2", title |-> <<1>>, description |-> <<>>,
                   analysis |-> [score |-> 3, summary |-> <<2>>]]
      [] i = 3 -> [guid |-> "g1", title |-> <<3>>, description |-> <<>>,
                   analysis |-> [score |-> 8, summary |-> <<>>]]
      [] i = 4 -> [guid |-> "g2", title |-> <<2>>, description |-> <<>>,
                   analysis |-> FailedAnalysis]
      [] i = 5 -> [guid |-> "g2", title |-> <<2>>, description |-> <<>>,
                   analysis |-> [summary |-> <<>>]]
      [] i = 6 -> [guid |-> "g1", title |-> <<2>>, description |-> <<>>,
                   analysis |-> [newsworthy |-> FALSE, summary |-> Null]]

FilterBatches == UNION {[1..n -> FilterItemChoices] : n \in 0..MaxBatch}

FilterTopics ==
    { [keywords |-> kws, score_threshold |-> th] :
        kws \in {<<>>, << <<2>> >>, << <<3>>, <<1>> >>}, th \in {1, 3, 5, 10} }

FilterInputs ==
    { [fn |-> "filter_in",
       items |-> [i \in 1..Len(b) |-> FilterItem(b[i])], topic |-> tp] :
        b \in FilterBatches, tp \in FilterTopics }

KeepOrchestrator ==
    UNCHANGED <<pc, ctx, iteration, state, stateFile, processed, topics, new_items,
                analyzed_items, ti, matching_items, ii, exc, endCause, succ,
                succCount, dupCall, attempted, failedNow, pending, wsFailed, intAt>>

InitOrchestrator ==
    /\ pc = "start"
    /\ ctx = "iter"
    /\ iteration = 0
    /\ state = EmptyState
    /\ stateFile = AbsentFile
    /\ processed = {}
    /\ topics = <<>>
    /\ new_items = <<>>
    /\ analyzed_items = <<>>
    /\ ti = 0
    /\ matching_items = <<>>
    /\ ii = 0
    /\ exc = "none"
    /\ endCause = "none"
    /\ succ = {}
    /\ succCount = [x \in Triples |-> 0]
    /\ dupCall = FALSE
    /\ attempted = {}
    /\ failedNow = {}
    /\ pending = {}
    /\ wsFailed = {}
    /\ intAt = <<"none", "none">>

InitMatcher ==
    /\ InitOrchestrator
    /\ now = 0
    /\ \/ call \in MatchInputs
       \/ call \in FilterInputs

ApplyMatchesTopic ==
    /\ call.fn = "match_in"
    /\ call' = [fn |-> "matches_topic", item |-> call.item, keywords |-> call.keywords,
                out |-> matches_topic_outcome(call.item, call.keywords)]
    /\ now' = now
    /\ KeepOrchestrator

ApplyFilterItems ==
    /\ call.fn = "filter_in"
    /\ call' = [fn |-> "filter_items_by_topic", items |-> call.items, topic |-> call.topic,
                raised |-> FilterRaises(call.items, call.topic),
                out |-> IF FilterRaises(call.items, call.topic) THEN <<>>
                        ELSE filter_items_by_topic(call.items, call.topic)]
    /\ now' = now
    /\ KeepOrchestrator

NextMatcher == ApplyMatchesTopic \/ ApplyFilterItems

SpecMatcher == InitMatcher /\ [][NextMatcher]_vars

(***************************************************************************)
(* The store on its own: load_notification_state, the is_/mark_ functions  *)
(* and save_notification_state called in any order on a state file.        *)
(***************************************************************************)
StoreFiles ==
    { AbsentFile,
      [kind |-> "valid", data |-> [topics |-> NoTopics]],
      [kind |-> "valid",
       data |-> [topics |-> [t \in {"t1"} |->
                               [slack_sent |-> <<>>, sheets_logged |-> <<"g1">>]],
                 last_updated |-> 0]],
      [kind |-> "valid",
       data |-> [topics |-> [t \in {"t1"} |->
                               [slack_sent |-> <<"g2", "g1">>, sheets_logged |-> <<>>]],
                 last_updated |-> 0, version |-> 2]],
      [kind |-> "valid",
       data |-> [slack_sent |-> <<"g1">>, sheets_logged |-> <<"g1", "g2">>]],
      [kind |-> "valid",
       data |-> [sheets_logged |-> <<"g2">>, last_updated |-> 0]] }

KeepRouting ==
    UNCHANGED <<pc, ctx, iteration, processed, topics, new_items, analyzed_items, ti,
                matching_items, ii, exc, endCause, succ, succCount, dupCall,
                attempted, failedNow, pending, wsFailed, intAt>>

InitStore ==
    /\ pc = "start"
    /\ ctx = "iter"
    /\ iteration = 0
    /\ processed = {}
    /\ topics = <<>>
    /\ new_items = <<>>
    /\ analyzed_items = <<>>
    /\ ti = 0
    /\ matching_items = <<>>
    /\ ii = 0
    /\ exc = "none"
    /\ endCause = "none"
    /\ succ = {}
    /\ succCount = [x \in Triples |-> 0]
    /\ dupCall = FALSE
    /\ attempted = {}
    /\ failedNow = {}
    /\ pending = {}
    /\ wsFailed = {}
    /\ intAt = <<"none", "none">>
    /\ state = EmptyState
    /\ stateFile \in StoreFiles
    /\ call = NoCall
    /\ now = 1

\* A process holds a loaded state (a process whose load raised is over, and
\* the next call is the load of its restart).
StoreLoaded == call.fn \in {"is", "mark", "save"} \/ (call.fn = "load" /\ ~call.raised)

\* Lines 11-22. The state returned for an absent file carries the stamp of
\* line 21, and the state migrated from a flat file the file's last_updated or,
\* if it has none, the time of the load (lines 53 and 60).
StoreLoad ==
    /\ now < MaxClock
    /\ now' = now + 1
    /\ LET r == load_notification_state(stateFile)
       IN  /\ state' = IF r.raised THEN EmptyState
                       ELSE IF stateFile.kind = "absent"
                            THEN save_notification_state(r.state, now)
                            ELSE IF "topics" \in DOMAIN stateFile.data
                            THEN r.state
                            ELSE save_notification_state(r.state,
                                    IF "last_updated" \in DOMAIN stateFile.data
                                    THEN stateFile.data.last_updated ELSE now)
           /\ call' = [fn |-> "load", raised |-> r.raised, read |-> stateFile]
    /\ stateFile' = stateFile
    /\ KeepRouting

StoreIsDelivered ==
    /\ StoreLoaded
    /\ now < MaxClock
    /\ now' = now + 1
    /\ \E t \in TopicIds, sink \in Sinks, g \in Guids :
         /\ state' = _get_or_create_topic_state(t, state)
         /\ call' = [fn |-> "is", raised |-> FALSE, t |-> t, sink |-> sink, g |-> g,
                     before |-> state,
                     out |-> IF sink = "log" THEN is_topic_sheets_logged(t, g, state)
                             ELSE is_topic_slack_sent(t, g, state)]
    /\ stateFile' = stateFile
    /\ KeepRouting

StoreMarkDelivered ==
    /\ StoreLoaded
    /\ now < MaxClock
    /\ now' = now + 1
    /\ \E t \in TopicIds, sink \in Sinks, g \in Guids :
         /\ state' = IF sink = "log" THEN mark_topic_sheets_logged(t, g, state)
                     ELSE mark_topic_slack_sent(t, g, state)
         /\ call' = [fn |-> "mark", raised |-> FALSE, t |-> t, sink |-> sink, g |-> g,
                     before |-> state,
                     again |-> /\ call.fn = "mark"
                               /\ call.t = t /\ call.sink = sink /\ call.g = g]
    /\ stateFile' = stateFile
    /\ KeepRouting

\* Lines 64-72: the stamp, then the truncating open and json.dump, which the
\* file system lets complete or not.
StoreSave ==
    /\ StoreLoaded
    /\ now < MaxClock
    /\ now' = now + 1
    /\ \E out \in Transport :
         LET written == save_notification_state(state, now)
         IN  /\ state' = written
             /\ stateFile' = IF out = "ok" THEN [kind |-> "valid", data |-> written]
                             ELSE PartialFile
             /\ call' = [fn |-> "save", raised |-> (out # "ok"), at |-> now,
                         written |-> written,
                         after_load |-> (call.fn = "load"),
                         read |-> IF call.fn = "load" THEN call.read ELSE AbsentFile]
    /\ KeepRouting

NextStore == StoreLoad \/ StoreIsDelivered \/ StoreMarkDelivered \/ StoreSave

SpecStore == InitStore /\ [][NextStore]_vars

(***************************************************************************)
(* topic_manager.py: the rows of the Topics worksheet and their conversion.*)
(* A row is the list of its cells as get_all_values returns them: strings, *)
(* the keywords cell as a sequence of character codes.                     *)
(***************************************************************************)
Comma == 20

RECURSIVE SplitComma(_)
SplitComma(text) ==
    IF \A i \in 1..Len(text) : text[i] # Comma THEN <<text>>
    ELSE LET c == CHOOSE i \in 1..Len(text) :
                     text[i] = Comma /\ \A j \in 1..(i - 1) : text[j] # Comma
         IN  <<SubSeq(text, 1, c - 1)>> \o SplitComma(SubSeq(text, c + 1, Len(text)))

\* [k.strip().lower() for k in row[2].split(',') if k.strip()]
RECURSIVE KeywordsOf(_)
KeywordsOf(parts) ==
    IF parts = <<>> THEN <<>>
    ELSE IF Strip(Head(parts)) # <<>>
         THEN <<Lower(Strip(Head(parts)))>> \o KeywordsOf(Tail(parts))
         ELSE KeywordsOf(Tail(parts))

\* The threshold cells that int() accepts, with their values.
IntCells == ("0" :> 0) @@ ("7" :> 7)

LowerWord(c) == IF c \in {"TRUE", "True", "true"} THEN "true" ELSE c

\* Mutant: a threshold that is not an integer becomes the default 5.
_row_to_topic_defaults_threshold(row) ==
    IF Len(row) < 8 THEN <<>>
    ELSE << [id |-> row[1],
             keywords |-> KeywordsOf(SplitComma(row[3])),
             slack_webhook |-> row[6] # "",
             score_threshold |-> IF row[7] \in DOMAIN IntCells THEN IntCells[row[7]] ELSE 5,
             active |-> IF row[8] # "" THEN LowerWord(row[8]) = "true" ELSE TRUE] >>

\* Lines 64-83. The result is <<>> for None and <<topic>> for a topic.
_row_to_topic(row) ==
    IF Len(row) < 8 THEN <<>>
    ELSE IF row[7] # "" /\ row[7] \notin DOMAIN IntCells THEN <<>>
    ELSE << [id |-> row[1],
             keywords |-> KeywordsOf(SplitComma(row[3])),
             slack_webhook |-> row[6] # "",
             score_threshold |-> IF row[7] # "" THEN IntCells[row[7]] ELSE 5,
             active |-> IF row[8] # "" THEN LowerWord(row[8]) = "true" ELSE TRUE] >>

RECURSIVE ConvertRows(_)
ConvertRows(rows) ==
    IF rows = <<>> THEN <<>> ELSE _row_to_topic(Head(rows)) \o ConvertRows(Tail(rows))

\* Lines 102-118: `readable` is whether _get_topics_worksheet and
\* get_all_values returned; rows[1] is the header row.
load_topics(readable, rows) ==
    IF ~readable THEN <<>>
    ELSE ConvertRows(SubSeq(rows, 2, Len(rows)))

\* Lines 305-308.
list_active_topics(readable, rows) ==
    SelectSeq(load_topics(readable, rows), LAMBDA t : t.active)

HeaderRow ==
    <<"ID", "Name", <<>>, "Sheet_ID", "Sheet_Name", "Slack_Webhook", "Score_Threshold",
      "Active", "Created_At", "Updated_At">>

RowChoices == 1..8

FullRow(i) ==
    CASE i = 1 -> <<"t1", "n", <<11, 20, 0, 2>>, "s", "w", "hook", "7", "TRUE", "c", "u">>
      [] i = 2 -> <<"t2", "n", <<2>>, "s", "w", "", "", "", "c", "u">>
      [] i = 3 -> <<"t3", "n", <<2>>, "s", "w", "", "7", "true", "c", "u">>
      [] i = 4 -> <<"t4", "n", <<2>>, "s", "w", "", "x", "true", "c", "u">>
      [] i = 5 -> <<"t5", "n", <<1>>, "s", "w", "hook", "7", "false", "c", "u">>
      [] i = 6 -> <<"t6", "n", <<1>>, "s", "w", "", "7", "", "c", "u">>
      [] i = 7 -> <<"t7", "n", <<20, 0, 20>>, "s", "w", "", "0", "yes", "c", "u">>
      [] i = 8 -> <<"t8", "n", <<3>>, "s", "w", "", "7.5", "", "c", "u">>

RowLength(i) ==
    CASE i = 2 -> 8
      [] i = 3 -> 7
      [] i = 6 -> 0
      [] i = 7 -> 9
      [] OTHER -> 10

DataRow(i) == SubSeq(FullRow(i), 1, RowLength(i))

Worksheets ==
    { <<HeaderRow>> \o [k \in 1..Len(c) |-> DataRow(c[k])] :
        c \in UNION {[1..n -> RowChoices] : n \in 0..MaxRows} } \cup {<<>>}

InitTopics ==
    /\ InitOrchestrator
    /\ now = 0
    /\ call \in { [fn |-> "sheet", readable |-> rd, rows |-> rows] :
                    rd \in BOOLEAN, rows \in Worksheets }

ApplyLoadTopics ==
    /\ call.fn = "sheet"
    /\ call' = [fn |-> "load_topics", readable |-> call.readable, rows |-> call.rows,
                out |-> load_topics(call.readable, call.rows)]
    /\ now' = now
    /\ KeepOrchestrator

ApplyListActiveTopics ==
    /\ call.fn = "sheet"
    /\ call' = [fn |-> "list_active_topics", readable |-> call.readable,
                rows |-> call.rows,
                out |-> list_active_topics(call.readable, call.rows)]
    /\ now' = now
    /\ KeepOrchestrator

NextTopics == ApplyLoadTopics \/ ApplyListActiveTopics

SpecTopics == InitTopics /\ [][NextTopics]_vars

(***************************************************************************)
(* The scraper's ledger on its own: identify_new_items called on one fetch *)
(* after another.                                                          *)
(***************************************************************************)
\* Feed entries as parse_rss_feed returns them; the guid of an entry without
\* a <guid> element is "" (lines 95-96).
FeedEntries ==
    { [guid |-> "g1", title |-> <<11, 2>>, description |-> <<>>],
      [guid |-> "g2", title |-> <<2>>,     description |-> <<1>>],
      [guid |-> "",   title |-> <<1>>,     description |-> <<>>],
      [guid |-> "",   title |-> <<3>>,     description |-> <<>>] }

\* One fetch: distinct entries of the feeds, in some order.
Fetches ==
    { f \in UNION {[1..n -> FeedEntries] : n \in 0..MaxFeed} :
        \A i, j \in 1..Len(f) : i # j => f[i] # f[j] }

InitScraper ==
    /\ InitOrchestrator
    /\ call = NoCall
    /\ now = 0

\* `returned` keeps the guids that earlier calls returned as new.
ScraperCall ==
    /\ \E f \in Fetches :
         LET r == identify_new_items(f, processed)
         IN  /\ processed' = r.processed
             /\ call' = [fn |-> "identify_new_items", all_items |-> f,
                         seen |-> processed, out |-> r.new_items,
                         returned |-> IF call.fn = "identify_new_items"
                                      THEN call.returned \cup
                                           {call.out[i].guid : i \in 1..Len(call.out)}
                                      ELSE {}]
    /\ UNCHANGED <<pc, ctx, iteration, state, stateFile, topics, new_items,
                   analyzed_items, ti, matching_items, ii, exc, endCause, succ,
                   succCount, dupCall, attempted, failedNow, pending, wsFailed,
                   intAt, now>>

SpecScraper == InitScraper /\ [][ScraperCall]_vars

\* C11. Fatal startup: when validate_configuration fails the process exits
\* with a non-zero status, and in that run the delivery state was not loaded, no
\* iteration began, no topics or items were read and no sink was called.
FatalStartup ==
    (pc = "exited" /\ endCause = "config") =>
        /\ ExitStatus(endCause) # 0
        /\ state = EmptyState
        /\ iteration = 0
        /\ topics = <<>> /\ new_items = <<>> /\ analyzed_items = <<>>
        /\ attempted = {}
        /\ \A x \in Triples : succCount[x] = 0

\* The service was started on a data directory whose state file holds a
\* logged guid, and validation failed.
FatalStartupWitness ==
    /\ pc = "exited"
    /\ endCause = "config"
    /\ stateFile.kind = "valid"
    /\ Delivered(stateFile.data, "t1", "log", "g1")

\* The three text fields of an item in the order the matcher reads them; a
\* field that is absent, empty or null contributes nothing.
FieldTexts(item) ==
    LET f(k) == IF k \in DOMAIN item /\ Truthy(item[k]) THEN <<item[k]>> ELSE <<>>
        sm == IF "analysis" \in DOMAIN item
                 /\ "summary" \in DOMAIN item.analysis
                 /\ Truthy(item.analysis.summary)
              THEN <<item.analysis.summary>> ELSE <<>>
    IN  f("title") \o f("description") \o sm

RECURSIVE PlainConcat(_)
PlainConcat(texts) ==
    IF texts = <<>> THEN <<>> ELSE Head(texts) \o PlainConcat(Tail(texts))

RECURSIVE SpaceJoin(_)
SpaceJoin(texts) ==
    IF texts = <<>> THEN <<>>
    ELSE IF Len(texts) = 1 THEN Head(texts)
    ELSE Head(texts) \o Space \o SpaceJoin(Tail(texts))

AnyKeywordIn(keywords, text) ==
    /\ keywords # <<>>
    /\ \E k \in 1..Len(keywords) : Contains(Lower(keywords[k]), Lower(text))

Returned == call.fn = "matches_topic" /\ call.out \in {"True", "False"}

ThresholdAndKeyword ==
    (call.fn = "filter_items_by_topic" /\ ~call.raised) =>
        LET ok(it) == /\ matches_topic(it, call.topic.keywords)
                      /\ ItemScore(it) >= call.topic.score_threshold
        IN  /\ call.out = SelectSeq(call.items, ok)
            /\ \A i \in 1..Len(call.out) :
                   ItemScore(call.out[i]) >= call.topic.score_threshold

\* A batch of two matching items of which the threshold dropped one.
ThresholdAndKeywordWitness ==
    /\ call.fn = "filter_items_by_topic"
    /\ Len(call.items) = 2
    /\ Len(call.out) = 1
    /\ \A i \in 1..2 : matches_topic(call.items[i], call.topic.keywords)
    /\ \E i \in 1..2 : ItemScore(call.items[i]) < call.topic.score_threshold

NoUsableScore(item) ==
    \/ "score" \notin DOMAIN item.analysis
    \/ item.analysis.score = 0 /\ item.analysis.newsworthy = FALSE

\* C14. Failed or missing analysis is tolerated and never routed: when the
\* batch holds an item whose analysis has no score or is the failure sentinel
\* and the topic's threshold is in 1..10, filter_items_by_topic raises nothing
\* and returns no such item.
FailedAnalysisTolerated ==
    ( /\ call.fn = "filter_items_by_topic"
      /\ call.topic.score_threshold \in 1..10
      /\ \E i \in 1..Len(call.items) : NoUsableScore(call.items[i]) ) =>
        /\ ~call.raised
        /\ \A j \in 1..Len(call.out) : ~NoUsableScore(call.out[j])

\* C15. The matcher tolerates absent or empty fields: every call of
\* matches_topic, also on an item whose title, description, analysis or summary
\* is absent, empty or null, returns a boolean.
MatcherTolerant ==
    call.fn = "matches_topic" => call.out \in {"True", "False"}

\* The ledger entry of a triple x = <<topic, sink, guid>>: in the loaded state
\* of a running process, and in the state file when no state is loaded.
InLedger(x) ==
    IF pc \in Startup \cup Ended
    THEN stateFile.kind = "valid" /\ Delivered(stateFile.data, x[1], x[2], x[3])
    ELSE Delivered(state, x[1], x[2], x[3])

\* C17. Append-only ledger: over every step of the service (is/mark calls, save,
\* the next iteration, the end of the process and its restart with the load of
\* the saved file) a guid that is in a topic's sheets_logged or slack_sent list
\* stays in it.
AppendOnlyLedger ==
    [][\A x \in Triples : InLedger(x) => InLedger(x)']_vars

\* The triple that the sink step at pc is about.
CurrentTriple ==
    <<topics[ti], IF pc = "item_log" THEN "log" ELSE "slack", matching_items[ii].guid>>

\* C18. Per-topic scoping: a step of a running process changes the delivered
\* status of a triple only if it is the sink step of exactly that (topic, sink,
\* guid), and then from undelivered to delivered after a success; every other
\* topic, the other sink and every other guid keep their status.
PerTopicScoping ==
    [][ (pc \notin Startup \cup Ended /\ pc' \notin Ended) =>
          \A x \in Triples :
             (Delivered(state, x[1], x[2], x[3]) # Delivered(state', x[1], x[2], x[3])) =>
                /\ pc \in {"item_log", "item_slack"}
                /\ x = CurrentTriple
                /\ Delivered(state', x[1], x[2], x[3])
                /\ x \in succ' ]_vars

\* The same guid g1 was delivered to the log sink once for topic t1 and once
\* for topic t2.
PerTopicScopingWitness ==
    /\ Delivered(state, "t1", "log", "g1")
    /\ Delivered(state, "t2", "log", "g1")
    /\ succCount[<<"t1", "log", "g1">>] = 1
    /\ succCount[<<"t2", "log", "g1">>] = 1
    /\ ~Delivered(state, "t1", "slack", "g1")

\* C19. Chat-sink gating: when an iteration's routing is done, the chat sink was
\* called for (T, g) only if T is active with a webhook and g is among T's
\* matching items (score at least the threshold), it was called for every such
\* (T, g) not in T's slack_sent list, and g is in slack_sent only after a
\* successful call.
ChatSinkGating ==
    RoutingDone =>
      \A t \in TopicIds, g \in Guids :
         LET x == <<t, "slack", g>>
             gated == /\ t \in Range(topics)
                      /\ Topic(t).slack_webhook
                      /\ \E k \in 1..Len(MatchingOf(t)) :
                            /\ MatchingOf(t)[k].guid = g
                            /\ MatchingOf(t)[k].analysis.score >= Topic(t).score_threshold
         IN  /\ x \in attempted => gated
             /\ (gated /\ ~Delivered(state, t, "slack", g)) => x \in attempted
             /\ Delivered(state, t, "slack", g) => x \in succ

Occurrences(g, list) == Cardinality({i \in 1..Len(list) : list[i] = g})

\* C16. Idempotent marking: after mark_topic_sheets_logged(t, g) or
\* mark_topic_slack_sent(t, g) the guid is delivered for (t, sink) and occurs
\* exactly once in the list that a save writes; a second identical call leaves
\* the state as the first call left it.
MarkIdempotent ==
    call.fn = "mark" =>
        LET t == call.t
            g == call.g
            persisted == save_notification_state(state, now).topics[t]
        IN  /\ IF call.sink = "log"
               THEN /\ is_topic_sheets_logged(t, g, state)
                    /\ Occurrences(g, persisted.sheets_logged) = 1
                    /\ mark_topic_sheets_logged(t, g, state) = state
               ELSE /\ is_topic_slack_sent(t, g, state)
                    /\ Occurrences(g, persisted.slack_sent) = 1
                    /\ mark_topic_slack_sent(t, g, state) = state
            /\ call.again => state = call.before

\* mark_topic_slack_sent was called twice in a row for (t2, g1).
MarkIdempotentWitness ==
    /\ call.fn = "mark"
    /\ call.again
    /\ call.sink = "slack"
    /\ call.t = "t2"
    /\ call.g = "g1"

SavedWhatWasLoaded ==
    /\ call.fn = "save"
    /\ ~call.raised
    /\ call.after_load
    /\ call.read.kind = "valid"
    /\ "topics" \in DOMAIN call.read.data

\* C20 as stated. Save/load round trip: save_notification_state called on what
\* load_notification_state returned for a per-topic state file (topics and
\* last_updated present) writes an object equal to the one read.
RoundTripIdentical ==
    (SavedWhatWasLoaded /\ "last_updated" \in DOMAIN call.read.data) =>
        call.written = call.read.data

\* C20 amended. Save/load round trip: the object written has the fields of the
\* one read and last_updated, every field other than last_updated has the value
\* read (same topic ids, same guid lists in the same order), and last_updated
\* is the time of the save.
RoundTripButStamp ==
    SavedWhatWasLoaded =>
        /\ DOMAIN call.written = DOMAIN call.read.data \cup {"last_updated"}
        /\ \A k \in DOMAIN call.read.data \ {"last_updated"} :
               call.written[k] = call.read.data[k]
        /\ call.written.last_updated = call.at
        /\ stateFile = [kind |-> "valid", data |-> call.written]

\* A file with two guids in one list and a field the code does not know was
\* loaded and saved at a later time.
RoundTripButStampWitness ==
    /\ SavedWhatWasLoaded
    /\ "version" \in DOMAIN call.read.data
    /\ call.read.data.topics["t1"].slack_sent = <<"g2", "g1">>
    /\ call.written.last_updated # call.read.data.last_updated

FlatFile(f) ==
    /\ f.kind = "valid"
    /\ "topics" \notin DOMAIN f.data
    /\ ("slack_sent" \in DOMAIN f.data \/ "sheets_logged" \in DOMAIN f.data)

\* C21. Legacy migration: load_notification_state on a state file in the flat
\* shape does not raise and returns a state that has a topics mapping with no
\* topic in it, so no guid of the flat lists is delivered for any topic, and the
\* flat lists themselves are not in the state.
LegacyMigration ==
    (call.fn = "load" /\ FlatFile(call.read)) =>
        /\ ~call.raised
        /\ "topics" \in DOMAIN state
        /\ DOMAIN state.topics = {}
        /\ \A x \in Triples : ~Delivered(state, x[1], x[2], x[3])
        /\ DOMAIN state \cap {"slack_sent", "sheets_logged"} = {}

\* A flat file with guids in both lists was loaded.
LegacyMigrationWitness ==
    /\ call.fn = "load"
    /\ FlatFile(call.read)
    /\ "slack_sent" \in DOMAIN call.read.data
    /\ call.read.data.sheets_logged = <<"g1", "g2">>
    /\ ~call.raised

\* C22. Warm-up iteration: while the iteration counter of a running process is
\* 1, the orchestrator is in the first-iteration sleep, back at the top of the
\* loop or in an interrupt's shutdown save; it holds no topics, no fetched and
\* no analysed items and has called no sink in this run; and outside a shutdown
\* its steps change neither the delivery state, the state file nor the fetch
\* ledger.
WarmUpIteration ==
    [][ (iteration' = 1 /\ pc' \notin Ended) =>
          /\ pc' \in {"sleep_first", "loop_top"} \/ (pc' \in Saving /\ ctx' # "iter")
          /\ topics' = <<>> /\ new_items' = <<>> /\ analyzed_items' = <<>>
          /\ attempted' = {}
          /\ \A x \in Triples : succCount'[x] = 0
          /\ ctx' = "iter" => UNCHANGED <<state, stateFile, processed>> ]_vars

\* A restarted process has finished its warm-up sleep on a data directory whose
\* state file and fetch ledger hold entries of the run before.
WarmUpIterationWitness ==
    /\ iteration = 1
    /\ pc = "loop_top"
    /\ ctx = "iter"
    /\ processed # {}
    /\ stateFile.kind = "valid"
    /\ state = stateFile.data
    /\ Delivered(state, "t1", "log", "g1")

\* C23. Empty topic set: an iteration that reads an empty active-topic list
\* goes from that read straight to the poll-interval sleep, with nothing
\* fetched or analysed, no sink called and the delivery state, the state file
\* and the fetch ledger as they were; the sleep ends at the top of the loop.
EmptyTopicSet ==
    [][ /\ (pc = "load_topics" /\ ctx' = "iter" /\ pc' \notin Ended /\ topics' = <<>>) =>
              /\ pc' = "sleep_notopics"
              /\ iteration' >= 2
              /\ new_items' = <<>> /\ analyzed_items' = <<>>
              /\ attempted' = {}
              /\ UNCHANGED <<state, stateFile, processed>>
        /\ (pc = "sleep_notopics" /\ ctx' = "iter" /\ pc' \notin Ended) =>
              /\ pc' = "loop_top"
              /\ exc' = "none"
              /\ attempted' = {}
              /\ UNCHANGED <<state, stateFile, processed, iteration>> ]_vars

\* The third iteration found no active topic, after the second had delivered.
EmptyTopicSetWitness ==
    /\ pc = "sleep_notopics"
    /\ iteration = 3
    /\ topics = <<>>
    /\ Delivered(state, "t1", "log", "g1")
    /\ processed = {"g1"}

Routing == {"scrape", "analyze", "topic_loop", "get_worksheet", "item_log", "item_slack"}

\* The topics that were active at the iteration's read.
ActiveAtRead == IF call.fn = "list_active_topics" THEN call.active ELSE {}

\* C24. Active-topic snapshot: from the fetch to the save, an iteration works on
\* the list of the topics that were active at its read, in row order, and has
\* gone through all of them when it saves; a sink call is made and a guid is
\* marked only for a topic that was active at that read.
ActiveSnapshot ==
    [][ /\ (pc' \in Routing \/ RoutingDone') =>
              /\ call'.fn = "list_active_topics"
              /\ topics' = SelectItems(TopicOrder, call'.active)
        /\ RoutingDone' => ti' = Len(topics') + 1
        /\ \A x \in Triples :
              /\ x \in attempted' \ attempted => x[1] \in ActiveAtRead
              /\ (/\ pc \notin Startup
                  /\ ~Delivered(state, x[1], x[2], x[3])
                  /\ Delivered(state', x[1], x[2], x[3])) => x[1] \in ActiveAtRead ]_vars

\* Only t2 was active at the read: g1, which also matches t1, was logged for t2
\* and no sink was called for t1.
ActiveSnapshotWitness ==
    /\ RoutingDone
    /\ call.fn = "list_active_topics"
    /\ call.active = {"t2"}
    /\ Delivered(state, "t2", "log", "g1")
    /\ MatchingOf("t1") # <<>>
    /\ \A x \in attempted : x[1] = "t2"
    /\ "t1" \notin DOMAIN state.topics

\* C25. Retry after an aborted iteration: when an exception has aborted an
\* iteration after its fetch (in the analysis, the routing or the save), an item
\* of the batch that is not yet logged for an active topic can still be fetched
\* as new: its guid is not in the fetch ledger.
RetryAfterAbort ==
    (pc = "cooldown" /\ exc \in {"analyze", "route", "save"}) =>
        \A i \in 1..Len(new_items) :
            (\E t \in Range(topics) : ~Delivered(state, t, "log", new_items[i].guid)) =>
                new_items[i].guid \notin processed

NewCalls == attempted' \ attempted

\* C27 as stated. Sink call ordering: a sink call is for a topic that no earlier
\* call of the iteration comes after in the topic list, and a log-sink call of
\* a topic is not preceded by a chat-sink call of that topic.
SinkOrderBySink ==
    [][ \A x \in NewCalls :
          /\ \A y \in attempted : \E i \in 1..ti : topics[i] = y[1]
          /\ x[2] = "log" => \A y \in attempted : y[1] = x[1] => y[2] = "log" ]_vars

\* C27 amended. Sink call ordering: a step makes at most one sink call, the
\* call of the sink step it is at; the topics of the earlier calls of the
\* iteration are not after the current topic in the topic list; within a topic
\* the items are taken in batch order; and for each item the chat-sink call
\* comes after the item's log-sink call (or the item was already logged).
SinkOrderByItem ==
    [][ /\ Cardinality(NewCalls) <= 1
        /\ \A x \in NewCalls :
              /\ pc \in {"item_log", "item_slack"}
              /\ x = CurrentTriple
              /\ \A y \in attempted : \E i \in 1..ti : topics[i] = y[1]
              /\ \A y \in attempted :
                    y[1] = x[1] => \E k \in 1..ii : matching_items[k].guid = y[3]
              /\ x[2] = "slack" =>
                    \/ <<x[1], "log", x[3]>> \in attempted
                    \/ Delivered(state, x[1], "log", x[3]) ]_vars

\* Both items were sent to both sinks of t1 and g1 to the log sink of t2.
SinkOrderByItemWitness ==
    /\ RoutingDone
    /\ topics = TopicOrder
    /\ attempted = {<<"t1", "log", "g1">>, <<"t1", "slack", "g1">>,
                    <<"t1", "log", "g2">>, <<"t1", "slack", "g2">>,
                    <<"t2", "log", "g1">>}

\* C28. Fetch ledger: identify_new_items returns only items whose guid was not
\* in the ledger before the call, the ledger afterwards holds every fetched
\* guid, no guid returned by an earlier call is returned again, and the
\* returned batch holds no two items with the same guid.
FetchLedger ==
    call.fn = "identify_new_items" =>
        /\ \A i \in 1..Len(call.out) : call.out[i].guid \notin call.seen
        /\ \A i \in 1..Len(call.all_items) : call.all_items[i].guid \in processed
        /\ \A i \in 1..Len(call.out) : call.out[i].guid \notin call.returned
        /\ \A i, j \in 1..Len(call.out) :
               i # j => call.out[i].guid # call.out[j].guid

\* A data row that _row_to_topic can convert: at least 8 cells and a threshold
\* cell that is empty or an integer.
Convertible(row) == Len(row) >= 8 /\ (row[7] = "" \/ row[7] \in {"0", "7"})

\* C29. Malformed topic rows are skipped: load_topics returns one topic for each
\* convertible data row, in row order and with the row's id, its threshold (5
\* when empty) and its active flag (true when empty), and nothing for any other
\* row; when the worksheet cannot be read it returns the empty list.
MalformedRowsSkipped ==
    call.fn = "load_topics" =>
        IF ~call.readable THEN call.out = <<>>
        ELSE LET good == SelectSeq(SubSeq(call.rows, 2, Len(call.rows)), Convertible)
             IN  /\ Len(call.out) = Len(good)
                 /\ \A k \in 1..Len(good) :
                       /\ call.out[k].id = good[k][1]
                       /\ call.out[k].score_threshold =
                             (IF good[k][7] = "7" THEN 7 ELSE IF good[k][7] = "0" THEN 0 ELSE 5)
                       /\ call.out[k].active = (good[k][8] \in {"", "TRUE", "True", "true"})

\* A short row and a row with a threshold that is no integer were read, in
\* that order, and nothing was returned for them; and a sheet with a
\* convertible row after a malformed one gave that one row.
MalformedRowsSkippedWitness ==
    /\ call.fn = "load_topics"
    /\ call.readable
    /\ Len(call.rows) = 3
    /\ ~Convertible(call.rows[2])
    /\ Convertible(call.rows[3])
    /\ Len(call.out) = 1
    /\ call.out[1].id = call.rows[3][1]

\* The triples the state file holds: none when it is absent or truncated.
OnDisk ==
    IF stateFile.kind = "valid"
    THEN {x \in Triples : Delivered(stateFile.data, x[1], x[2], x[3])}
    ELSE {}

InMemory == {x \in Triples : Delivered(state, x[1], x[2], x[3])}

\* C30. Persisted state never runs ahead of memory: from the initial load to
\* the end of the process every triple of the state file is in the in-memory
\* state, and a save that completes leaves the file equal to the in-memory
\* state.
DiskBehindMemory ==
    /\ [](pc \notin Startup \cup Ended => OnDisk \subseteq InMemory)
    /\ [][(pc = "save_write" /\ stateFile'.kind = "valid")
            => stateFile' = [kind |-> "valid", data |-> state']]_vars

\* The process was started again on a file that holds a delivery, loaded it,
\* and has since made a delivery that the file does not hold yet.
DiskBehindMemoryWitness ==
    /\ pc \notin Startup \cup Ended
    /\ endCause = "none"
    /\ iteration >= 2
    /\ OnDisk # {}
    /\ OnDisk # InMemory
    /\ OnDisk \subseteq InMemory
    /\ succCount = [x \in Triples |-> IF x \in InMemory \ OnDisk THEN 1 ELSE 0]

====
